---- MODULE Spec2Model ----
(***************************************************************************)
(* State-machine model of the sprite marketplace in src/app.py: the users  *)
(* and sprites tables of spriteshope.db, the per-browser Flask session,    *)
(* the upload directory, and one action per route handler.                 *)
(***************************************************************************)
EXTENDS Integers, Sequences, FiniteSets, TLC

VARIABLES users, sprites, sqlite_sequence, session, uploads, now, tieOrder, req, resp,
          lastSearch, ctx, assigned, workers

vars == <<users, sprites, sqlite_sequence, session, uploads, now, tieOrder, req, resp,
          lastSearch, ctx, assigned, workers>>

(***************************************************************************)
(* Bounds of the model.                                                    *)
(***************************************************************************)
\* rows ever inserted into users
MaxUsers == 2
\* rows ever inserted into sprites
MaxSprites == 2
\* seconds the clock may advance
MaxClock == 1
\* rows ever inserted into sprites where the requests vary in other respects
MaxListed == 1

(***************************************************************************)
(* Inputs of the requests.  Text that the code inspects character by       *)
(* character (file names, listing names, search terms, the price field)    *)
(* is a sequence of one-character strings.                                 *)
(***************************************************************************)
\* the browsers, each holding its own session cookie
Clients == {"c1"}
Usernames == {"alice", "bob"}
\* passwords offered to /register, and passwords tried at /login
Passwords == {"secret1", "short"}
Attempts == {"secret1", "hunter22"}
Salts == {"s1"}
Methods == {"GET", "POST"}
Names == {<<"H", "e">>, <<"a", "b">>}
\* 2^63, one more than the largest value of an SQLite INTEGER
TooLarge == <<"9", "2", "2", "3", "3", "7", "2", "0", "3", "6", "8", "5", "4", "7", "7", "5",
              "8", "0", "8">>
PriceInputs == {<<"5", "0">>, <<" ", "-", "7">>, <<"x">>}
ShortDescriptions == {"short text"}
LongDescriptions == {"long text"}
SearchTerms == {<<>>, <<"h">>, <<"E">>, <<"b", "a">>, <<"_">>, <<"%">>}
FileContents == {"bytes1", "bytes2"}
\* the 'image' part is missing from the request
NoImagePart == [present |-> FALSE]
\* what the environment may refuse while a listing is created: nothing, the
\* write of the uploaded file, the INSERT statement, the COMMIT
StorageFaults == {"none", "save", "insert", "commit"}
\* the workers that handle requests at the same time
Workers == {"w1", "w2"}
ImageFilenames == {<<>>,
                   <<"a", ".", "e", "x", "e">>,
                   <<"a">>,
                   <<"a", ".", "P", "N", "G">>,
                   <<".", ".", "/", "a", ".", "p", "n", "g">>,
                   <<"a", ".", "p", "n", "g", ".", "e", "x", "e">>}

(***************************************************************************)
(* Text helpers.                                                           *)
(***************************************************************************)
AsciiUpper == <<"A", "B", "C", "D", "E", "F", "G", "H", "I", "J", "K", "L", "M",
                "N", "O", "P", "Q", "R", "S", "T", "U", "V", "W", "X", "Y", "Z">>
AsciiLower == <<"a", "b", "c", "d", "e", "f", "g", "h", "i", "j", "k", "l", "m",
                "n", "o", "p", "q", "r", "s", "t", "u", "v", "w", "x", "y", "z">>
Digits == <<"0", "1", "2", "3", "4", "5", "6", "7", "8", "9">>

InSeq(c, s) == \E i \in 1..Len(s) : s[i] = c

IndexIn(c, s) == CHOOSE i \in 1..Len(s) : s[i] = c

\* the lower-case letter of each ASCII capital
LowerOf == [c \in {AsciiUpper[i] : i \in 1..26} |-> AsciiLower[IndexIn(c, AsciiUpper)]]

\* str.lower() on one ASCII character
LowerChar(c) == IF c \in DOMAIN LowerOf THEN LowerOf[c] ELSE c

\* str.lower()
Lower(s) == [i \in 1..Len(s) |-> LowerChar(s[i])]

\* position of the last occurrence of c in s, 0 when there is none
LastIndexOf(c, s) ==
    IF InSeq(c, s) THEN CHOOSE i \in 1..Len(s) : s[i] = c /\ \A j \in (i + 1)..Len(s) : s[j] # c
    ELSE 0

\* s.rsplit(c, 1)[1], for s containing c
RSplitLast(c, s) == SubSeq(s, LastIndexOf(c, s) + 1, Len(s))

\* t occurs in s as a contiguous run
Contains(s, t) == \E i \in 0..(Len(s) - Len(t)) : SubSeq(s, i + 1, i + Len(t)) = t

(***************************************************************************)
(* Configuration (app.config) and schema defaults.                         *)
(***************************************************************************)
ALLOWED_EXTENSIONS == {<<"p", "n", "g">>, <<"j", "p", "g">>, <<"j", "p", "e", "g">>,
                       <<"w", "e", "b", "p">>, <<"g", "i", "f">>}
DefaultSprite == <<"d", "e", "f", "a", "u", "l", "t", "-", "s", "p", "r", "i", "t", "e",
                   ".", "p", "n", "g">>
DefaultAvatar == "default-avatar.png"
DefaultBalance == 100
MinPasswordLen == 6

\* a mutation of allowed_file: filename.split('.')[1], the text between the
\* first '.' and the next one
allowed_file_firstDot(filename) ==
    /\ InSeq(".", filename)
    /\ LET first == CHOOSE i \in 1..Len(filename) :
                        filename[i] = "." /\ \A j \in 1..(i - 1) : filename[j] # "."
           rest == SubSeq(filename, first + 1, Len(filename))
           stop == IF InSeq(".", rest)
                   THEN (CHOOSE i \in 1..Len(rest) :
                            rest[i] = "." /\ \A j \in 1..(i - 1) : rest[j] # ".") - 1
                   ELSE Len(rest)
       IN  Lower(SubSeq(rest, 1, stop)) \in ALLOWED_EXTENSIONS

\* allowed_file(filename)
allowed_file(filename) ==
    InSeq(".", filename) /\ Lower(RSplitLast(".", filename)) \in ALLOWED_EXTENSIONS

(***************************************************************************)
(* Credential store: werkzeug's salted hash.  The digest is modelled as    *)
(* the pair it is computed from, i.e. as collision free.                   *)
(***************************************************************************)
Digest(salt, password) == <<salt, password>>

generate_password_hash(password, salt) == [salt |-> salt, digest |-> Digest(salt, password)]

\* a mutation of check_password_hash: only the salt is compared
check_password_hash_saltOnly(pwhash, password) == Digest(pwhash.salt, password)[1] = pwhash.digest[1]

check_password_hash(pwhash, password) == Digest(pwhash.salt, password) = pwhash.digest

(***************************************************************************)
(* Tables.  A table is the sequence of its rows in rowid order.            *)
(***************************************************************************)
RowsWhere(table, P(_)) == SelectSeq(table, P)

\* cursor.fetchone(): the first row, or none
FetchOne(rows) == IF rows = <<>> THEN <<>> ELSE <<rows[1]>>

UserByName(username) ==
    LET HasName(u) == u.username = username
    IN  RowsWhere(users, HasName)

\* a mutation of UniqueViolated: the username column without UNIQUE
UniqueViolated_dropped(username) == FALSE

\* users.username is UNIQUE: inserting this username fails
UniqueViolated(username) == UserByName(username) # <<>>

UserById(id) ==
    LET HasId(u) == u.id = id
    IN  RowsWhere(users, HasId)

SpriteRowIds == {sprites[i].id : i \in 1..Len(sprites)}

\* 'user_id' in session
LoggedIn(c) == "user_id" \in DOMAIN session[c]

EmptySession == [k \in {} |-> 0]

NoRequest == [route |-> "none"]
NoResponse == [kind |-> "none"]
\* no search has been answered since the last write to a table
NoSearch == [valid |-> FALSE]

Redirect(target, flash, db) == [kind |-> "redirect", target |-> target, flash |-> flash, db |-> db]
Render(template, flash, db) == [kind |-> "render", target |-> template, flash |-> flash, db |-> db]
\* the answer to a request whose handler raised: 500 Internal Server Error
ServerError(db) == [kind |-> "error", target |-> "500", flash |-> "none", db |-> db]

(***************************************************************************)
(* The application context of one request: the attributes of g, the        *)
(* connections sqlite3.connect has returned in it (numbered from 1), those *)
(* of them still open, and the statements executed.                        *)
(***************************************************************************)
NewContext == [g |-> [k \in {} |-> 0], connects |-> 0, open |-> {}, statements |-> <<>>]

\* get_db(): the context after the call; the handle returned is g.db
get_db(x) ==
    IF "db" \notin DOMAIN x.g
    THEN [x EXCEPT !.g = [k \in {"db"} |-> x.connects + 1],
                   !.connects = @ + 1,
                   !.open = @ \cup {x.connects + 1}]
    ELSE x

\* db.execute(statement), db.commit(), db.rollback() on the handle of g
execute(x, statement) == [x EXCEPT !.statements = Append(@, statement)]

\* a mutation of close_db: the handle is closed only when no error is passed
close_db_unlessError(x, error) ==
    IF "db" \in DOMAIN x.g /\ error = "none" THEN [x EXCEPT !.open = @ \ {x.g["db"]}] ELSE x

\* close_db(error), the teardown of the application context
close_db(x, error) ==
    IF "db" \in DOMAIN x.g THEN [x EXCEPT !.open = @ \ {x.g["db"]}] ELSE x

\* the application context of init_db(), which runs while the module is
\* loaded; close_db is registered as teardown only after that call, so this
\* context ends without it
init_db ==
    execute(execute(execute(get_db(NewContext), "CREATE TABLE users"), "CREATE TABLE sprites"),
            "COMMIT")

\* a worker that is handling no request
Idle == [pc |-> "idle"]

\* a mutation of NextRowId: INTEGER PRIMARY KEY without AUTOINCREMENT, one
\* more than the largest rowid now in the table
NextRowId_reused(rows, last) ==
    IF rows = <<>> THEN 1
    ELSE 1 + CHOOSE m \in {rows[i].id : i \in 1..Len(rows)} : \A i \in 1..Len(rows) : rows[i].id <= m

\* AUTOINCREMENT: one more than the largest rowid the table has ever held,
\* which sqlite_sequence records
NextRowId(rows, last) == last + 1

(***************************************************************************)
(* Initial state: the database as init_db leaves it, no session, an empty  *)
(* upload directory.  The order in which the engine returns rows that      *)
(* compare equal under ORDER BY is not fixed by the query; it is a         *)
(* property of the engine, chosen once.                                    *)
(***************************************************************************)
Init ==
    /\ users = <<>>
    /\ sprites = <<>>
    /\ sqlite_sequence = [users |-> 0, sprites |-> 0]
    /\ session = [c \in Clients |-> EmptySession]
    /\ uploads = [f \in {} |-> "bytes1"]
    /\ now = 0
    /\ tieOrder \in {"rowid_asc", "rowid_desc"}
    /\ req = NoRequest
    /\ resp = NoResponse
    /\ lastSearch = NoSearch
    /\ ctx = init_db
    /\ assigned = <<>>
    /\ workers = [w \in Workers |-> Idle]

\* the clock behind CURRENT_TIMESTAMP advances
Tick ==
    /\ now < MaxClock
    /\ now' = now + 1
    /\ UNCHANGED <<users, sprites, sqlite_sequence, session, uploads, tieOrder, req, resp,
                   lastSearch, ctx, assigned, workers>>

(***************************************************************************)
(* /register                                                               *)
(***************************************************************************)
\* a mutation of PasswordTooShort: the bound is one less
PasswordTooShort_offByOne(password) == Len(password) < MinPasswordLen - 1

\* len(password) < 6
PasswordTooShort(password) == Len(password) < MinPasswordLen

\* a mutation of register: INSERT OR REPLACE INTO users, so that a stored
\* username gets a new row in place of the old one
register_replace(c, method, username, password, salt) ==
    /\ req' = IF method = "POST"
              THEN [route |-> "register", client |-> c, method |-> method,
                    username |-> username, password |-> password]
              ELSE [route |-> "register", client |-> c, method |-> method]
    /\ UNCHANGED <<sprites, session, uploads, now, tieOrder, assigned, workers>>
    /\ IF method = "POST"
       THEN LET db == get_db(NewContext)
                OtherName(u) == u.username # username
            IN  IF PasswordTooShort(password)
                THEN /\ resp' = Redirect("register", "short_password", TRUE)
                     /\ ctx' = close_db(db, "none")
                     /\ UNCHANGED <<users, sqlite_sequence, lastSearch>>
                ELSE /\ users' = Append(SelectSeq(users, OtherName),
                                        [id |-> NextRowId(users, sqlite_sequence.users),
                                         username |-> username,
                                         password |-> generate_password_hash(password, salt),
                                         balance |-> DefaultBalance,
                                         avatar |-> DefaultAvatar,
                                         created_at |-> now])
                     /\ sqlite_sequence' = [sqlite_sequence EXCEPT !.users = @ + 1]
                     /\ lastSearch' = NoSearch
                     /\ resp' = Redirect("login", "registered", TRUE)
                     /\ ctx' = close_db(execute(execute(db, "INSERT INTO users"), "COMMIT"),
                                        "none")
       ELSE /\ resp' = Render("register.html", "none", FALSE)
            /\ ctx' = close_db(NewContext, "none")
            /\ UNCHANGED <<users, sqlite_sequence, lastSearch>>

register(c, method, username, password, salt) ==
    /\ req' = IF method = "POST"
              THEN [route |-> "register", client |-> c, method |-> method,
                    username |-> username, password |-> password]
              ELSE [route |-> "register", client |-> c, method |-> method]
    /\ UNCHANGED <<sprites, session, uploads, now, tieOrder, assigned, workers>>
    /\ IF method = "POST"
       THEN LET db == get_db(NewContext)
            IN  IF PasswordTooShort(password)
                THEN /\ resp' = Redirect("register", "short_password", TRUE)
                     /\ ctx' = close_db(db, "none")
                     /\ UNCHANGED <<users, sqlite_sequence, lastSearch>>
                ELSE IF UniqueViolated(username)
                     THEN \* sqlite3.IntegrityError
                          /\ resp' = Render("register.html", "duplicate_username", TRUE)
                          /\ ctx' = close_db(execute(db, "INSERT INTO users"), "none")
                          /\ UNCHANGED <<users, sqlite_sequence, lastSearch>>
                     ELSE /\ users' = Append(users,
                                             [id |-> NextRowId(users, sqlite_sequence.users),
                                              username |-> username,
                                              password |-> generate_password_hash(password, salt),
                                              balance |-> DefaultBalance,
                                              avatar |-> DefaultAvatar,
                                              created_at |-> now])
                          /\ sqlite_sequence' =
                                [sqlite_sequence EXCEPT
                                    !.users = IF NextRowId(users, @) > @
                                              THEN NextRowId(users, @) ELSE @]
                          /\ lastSearch' = NoSearch
                          /\ resp' = Redirect("login", "registered", TRUE)
                          /\ ctx' = close_db(execute(execute(db, "INSERT INTO users"), "COMMIT"),
                                             "none")
       ELSE /\ resp' = Render("register.html", "none", FALSE)
            /\ ctx' = close_db(NewContext, "none")
            /\ UNCHANGED <<users, sqlite_sequence, lastSearch>>

(***************************************************************************)
(* POST /register, statement by statement, as one worker of several runs   *)
(* it.  Each worker has its own connection.  An INSERT opens a write       *)
(* transaction, which the connection holds until it commits or is closed;  *)
(* while one connection holds it, the INSERT of another waits, and raises  *)
(* sqlite3.OperationalError ('database is locked') when the wait exceeds   *)
(* the timeout of sqlite3.connect, five seconds by default.                *)
(***************************************************************************)
\* the worker's connection holds the write transaction
HoldsWriteLock(w) == workers[w].pc \in {"commit", "duplicate"}

WriteLocked(w) == \E v \in Workers \ {w} : HoldsWriteLock(v)

\* request.form is read and get_db() called
RegisterBegin(w, username, password, salt) ==
    /\ workers[w].pc \in {"idle", "done"}
    /\ workers' = [workers EXCEPT ![w] = [pc |-> "validate", username |-> username,
                                          password |-> password, salt |-> salt,
                                          free |-> ~UniqueViolated(username)]]
    /\ UNCHANGED <<users, sprites, sqlite_sequence, session, uploads, now, tieOrder, req, resp,
                   lastSearch, ctx, assigned>>

\* if len(password) < 6: flash, redirect
RegisterValidate(w) ==
    /\ workers[w].pc = "validate"
    /\ workers' = [workers EXCEPT ![w] =
                      IF PasswordTooShort(@.password)
                      THEN [@ EXCEPT !.pc = "done"] @@ [outcome |-> "short_password"]
                      ELSE [@ EXCEPT !.pc = "insert"]]
    /\ UNCHANGED <<users, sprites, sqlite_sequence, session, uploads, now, tieOrder, req, resp,
                   lastSearch, ctx, assigned>>

\* db.execute(INSERT INTO users) once the write transaction can be opened:
\* the row is pending, or the statement raises sqlite3.IntegrityError
RegisterInsert(w) ==
    /\ workers[w].pc = "insert"
    /\ ~WriteLocked(w)
    /\ workers' = [workers EXCEPT ![w] =
                      IF UniqueViolated(@.username)
                      THEN [@ EXCEPT !.pc = "duplicate"]
                      ELSE [@ EXCEPT !.pc = "commit"]]
    /\ UNCHANGED <<users, sprites, sqlite_sequence, session, uploads, now, tieOrder, req, resp,
                   lastSearch, ctx, assigned>>

\* db.execute(INSERT INTO users) while another connection holds the write
\* transaction for longer than the timeout: sqlite3.OperationalError, which
\* register does not catch; the request ends with a server error
RegisterLocked(w) ==
    /\ workers[w].pc = "insert"
    /\ WriteLocked(w)
    /\ workers' = [workers EXCEPT ![w] = [@ EXCEPT !.pc = "done"] @@ [outcome |-> "locked"]]
    /\ UNCHANGED <<users, sprites, sqlite_sequence, session, uploads, now, tieOrder, req, resp,
                   lastSearch, ctx, assigned>>

\* db.commit(), flash, redirect to login
RegisterCommit(w) ==
    /\ workers[w].pc = "commit"
    /\ users' = Append(users,
                       [id |-> NextRowId(users, sqlite_sequence.users),
                        username |-> workers[w].username,
                        password |-> generate_password_hash(workers[w].password, workers[w].salt),
                        balance |-> DefaultBalance,
                        avatar |-> DefaultAvatar,
                        created_at |-> now])
    /\ sqlite_sequence' = [sqlite_sequence EXCEPT
                              !.users = IF NextRowId(users, @) > @ THEN NextRowId(users, @) ELSE @]
    /\ lastSearch' = NoSearch
    /\ workers' = [workers EXCEPT ![w] = [@ EXCEPT !.pc = "done"] @@ [outcome |-> "registered"]]
    /\ UNCHANGED <<sprites, session, uploads, now, tieOrder, req, resp, ctx, assigned>>

\* except sqlite3.IntegrityError: flash, render; the teardown closes the
\* connection, which ends its transaction
RegisterDuplicate(w) ==
    /\ workers[w].pc = "duplicate"
    /\ workers' = [workers EXCEPT ![w] =
                      [@ EXCEPT !.pc = "done"] @@ [outcome |-> "duplicate_username"]]
    /\ UNCHANGED <<users, sprites, sqlite_sequence, session, uploads, now, tieOrder, req, resp,
                   lastSearch, ctx, assigned>>

(***************************************************************************)
(* /login and /logout                                                      *)
(***************************************************************************)
login(c, method, username, password) ==
    /\ req' = IF method = "POST"
              THEN [route |-> "login", client |-> c, method |-> method,
                    username |-> username, password |-> password]
              ELSE [route |-> "login", client |-> c, method |-> method]
    /\ UNCHANGED <<users, sprites, sqlite_sequence, uploads, now, tieOrder, lastSearch,
                   assigned, workers>>
    /\ IF method = "POST"
       THEN LET user == UserByName(username)
            IN  /\ ctx' = close_db(execute(get_db(NewContext), "SELECT FROM users"), "none")
                /\ IF user # <<>> /\ check_password_hash(user[1].password, password)
                   THEN /\ session' = [session EXCEPT
                                          ![c] = [k \in {"user_id"} |-> user[1].id]]
                        /\ resp' = Redirect("home", "none", TRUE)
                   ELSE /\ resp' = Render("login.html", "bad_credentials", TRUE)
                        /\ UNCHANGED session
       ELSE /\ resp' = Render("login.html", "none", FALSE)
            /\ ctx' = close_db(NewContext, "none")
            /\ UNCHANGED session

logout(c) ==
    /\ req' = [route |-> "logout", client |-> c]
    /\ session' = [session EXCEPT ![c] = [k \in (DOMAIN @) \ {"user_id"} |-> @[k]]]
    /\ resp' = Redirect("home", "none", FALSE)
    /\ ctx' = close_db(NewContext, "none")
    /\ UNCHANGED <<users, sprites, sqlite_sequence, uploads, now, tieOrder, lastSearch,
                   assigned, workers>>

(***************************************************************************)
(* int(text) as add_item applies it to the price field: surrounding        *)
(* whitespace is dropped, one sign is allowed, the rest must be decimal    *)
(* digits, optionally grouped by single underscores.                       *)
(***************************************************************************)
Whitespace == {" ", "\t", "\n"}

IsSpace(ch) == ch \in Whitespace

\* str.lstrip(chars), str.rstrip(chars), str.strip(chars)
RECURSIVE LStrip(_, _)
LStrip(s, chars) == IF s # <<>> /\ Head(s) \in chars THEN LStrip(Tail(s), chars) ELSE s

RECURSIVE RStrip(_, _)
RStrip(s, chars) ==
    IF s # <<>> /\ s[Len(s)] \in chars THEN RStrip(SubSeq(s, 1, Len(s) - 1), chars) ELSE s

Strip(s, chars) == RStrip(LStrip(s, chars), chars)

IsDigit(ch) == InSeq(ch, Digits)

DigitValue(ch) == IndexIn(ch, Digits) - 1

RECURSIVE DecimalValue(_)
DecimalValue(s) ==
    IF s = <<>> THEN 0
    ELSE 10 * DecimalValue(SubSeq(s, 1, Len(s) - 1)) + DigitValue(s[Len(s)])

\* digits, with single underscores allowed between two digits
IsDecimalLiteral(s) ==
    /\ s # <<>>
    /\ \A i \in 1..Len(s) : IsDigit(s[i]) \/ s[i] = "_"
    /\ IsDigit(s[1]) /\ IsDigit(s[Len(s)])
    /\ \A i \in 1..(Len(s) - 1) : ~(s[i] = "_" /\ s[i + 1] = "_")

\* 2^63 - 1, the largest value of an SQLite INTEGER, in decimal digits
Int64MaxDigits == <<"9", "2", "2", "3", "3", "7", "2", "0", "3", "6", "8", "5", "4", "7", "7",
                    "5", "8", "0", "7">>

\* a <= b for digit sequences of one length
RECURSIVE DigitsLeq(_, _)
DigitsLeq(a, b) ==
    IF a = <<>> THEN TRUE
    ELSE IF Head(a) = Head(b) THEN DigitsLeq(Tail(a), Tail(b))
         ELSE DigitValue(Head(a)) < DigitValue(Head(b))

\* the integer written by these digits, negated or not, can be bound to a
\* statement: it lies in -2^63 .. 2^63 - 1
FitsInt64(negative, digits) ==
    LET d == LStrip(digits, {"0"})
    IN  \/ Len(d) < Len(Int64MaxDigits)
        \/ Len(d) = Len(Int64MaxDigits) /\ DigitsLeq(d, Int64MaxDigits)
        \/ negative /\ d = TooLarge

\* a mutation of ParseInt: the sign is accepted and dropped
ParseInt_unsigned(text) ==
    LET t == Strip(text, Whitespace)
        signed == t # <<>> /\ Head(t) \in {"+", "-"}
        body == IF signed THEN Tail(t) ELSE t
        digits == SelectSeq(body, IsDigit)
    IN  IF IsDecimalLiteral(body)
        THEN IF FitsInt64(FALSE, digits)
             THEN [ok |-> TRUE, int64 |-> TRUE, value |-> DecimalValue(digits)]
             ELSE [ok |-> TRUE, int64 |-> FALSE, digits |-> digits]
        ELSE [ok |-> FALSE]

\* int(text): a Python integer, given by its value when it fits an SQLite
\* INTEGER and by its digits when it does not
ParseInt(text) ==
    LET t == Strip(text, Whitespace)
        signed == t # <<>> /\ Head(t) \in {"+", "-"}
        negative == signed /\ Head(t) = "-"
        body == IF signed THEN Tail(t) ELSE t
        digits == SelectSeq(body, IsDigit)
    IN  IF IsDecimalLiteral(body)
        THEN IF FitsInt64(negative, digits)
             THEN [ok |-> TRUE, int64 |-> TRUE,
                   value |-> IF negative THEN 0 - DecimalValue(digits) ELSE DecimalValue(digits)]
             ELSE [ok |-> TRUE, int64 |-> FALSE, negative |-> negative, digits |-> digits]
        ELSE [ok |-> FALSE]

(***************************************************************************)
(* werkzeug.utils.secure_filename on ASCII text, POSIX separators.         *)
(***************************************************************************)
IsFilenameChar(ch) ==
    InSeq(ch, AsciiUpper) \/ InSeq(ch, AsciiLower) \/ IsDigit(ch) \/ ch \in {"_", ".", "-"}

\* "_".join(s.split()): the words of s, separated by one "_"
RECURSIVE JoinWords(_)
JoinWords(s) ==
    LET t == LStrip(s, Whitespace)
        wordEnd == IF \E i \in 1..Len(t) : IsSpace(t[i])
                   THEN (CHOOSE i \in 1..Len(t) : IsSpace(t[i]) /\ \A j \in 1..(i - 1) : ~IsSpace(t[j])) - 1
                   ELSE Len(t)
        rest == LStrip(SubSeq(t, wordEnd + 1, Len(t)), Whitespace)
    IN  IF t = <<>> THEN <<>>
        ELSE SubSeq(t, 1, wordEnd) \o (IF rest = <<>> THEN <<>> ELSE <<"_">> \o JoinWords(rest))

secure_filename(filename) ==
    LET spaced == [i \in 1..Len(filename) |-> IF filename[i] = "/" THEN " " ELSE filename[i]]
    IN  Strip(SelectSeq(JoinWords(spaced), IsFilenameChar), {".", "_"})

(***************************************************************************)
(* SQL helpers: LIKE without ESCAPE ('%' any run, '_' any one character,   *)
(* ASCII letters compared without case), the join of a listing with its    *)
(* owner, and ORDER BY created_at DESC.                                    *)
(***************************************************************************)
RECURSIVE Like(_, _)
Like(text, pattern) ==
    IF pattern = <<>> THEN text = <<>>
    ELSE IF Head(pattern) = "%"
         THEN Like(text, Tail(pattern)) \/ (text # <<>> /\ Like(Tail(text), pattern))
         ELSE /\ text # <<>>
              /\ Head(pattern) = "_" \/ LowerChar(Head(pattern)) = LowerChar(Head(text))
              /\ Like(Tail(text), Tail(pattern))

Reverse(s) == [i \in 1..Len(s) |-> s[Len(s) + 1 - i]]

\* the order in which a scan of sprites visits its rows
ScanSprites == IF tieOrder = "rowid_asc" THEN sprites ELSE Reverse(sprites)

\* sprites JOIN users ON sprites.seller_id = users.id, selecting sprites.* and
\* the listed columns of users
RECURSIVE JoinOwner(_, _)
JoinOwner(rows, columns) ==
    IF rows = <<>> THEN <<>>
    ELSE LET s == Head(rows)
             owners == UserById(s.seller_id)
             joined(u) == [k \in (DOMAIN s) \cup columns |-> IF k \in columns THEN u[k] ELSE s[k]]
         IN  [i \in 1..Len(owners) |-> joined(owners[i])] \o JoinOwner(Tail(rows), columns)

Max(S) == CHOOSE m \in S : \A x \in S : x <= m

Min(S) == CHOOSE m \in S : \A x \in S : m <= x

\* a mutation of OrderByCreatedAtDesc: ORDER BY created_at, oldest first
RECURSIVE OrderByCreatedAtDesc_ascending(_)
OrderByCreatedAtDesc_ascending(rows) ==
    IF rows = <<>> THEN <<>>
    ELSE LET oldest == Min({rows[i].created_at : i \in 1..Len(rows)})
             IsOldest(r) == r.created_at = oldest
             IsNewer(r) == r.created_at # oldest
         IN  SelectSeq(rows, IsOldest) \o OrderByCreatedAtDesc_ascending(SelectSeq(rows, IsNewer))

\* ORDER BY created_at DESC: rows that compare equal keep the order in which
\* they reached the sorter
RECURSIVE OrderByCreatedAtDesc(_)
OrderByCreatedAtDesc(rows) ==
    IF rows = <<>> THEN <<>>
    ELSE LET newest == Max({rows[i].created_at : i \in 1..Len(rows)})
             IsNewest(r) == r.created_at = newest
             IsOlder(r) == r.created_at # newest
         IN  SelectSeq(rows, IsNewest) \o OrderByCreatedAtDesc(SelectSeq(rows, IsOlder))

\* a mutation of home_query: only listings of the current second are selected
home_query_fresh(search) ==
    LET NameMatches(r) == Like(r.name, <<"%">> \o search \o <<"%">>) /\ r.created_at >= now
    IN  OrderByCreatedAtDesc(SelectSeq(JoinOwner(ScanSprites, {"username"}), NameMatches))

\* the query of home()
home_query(search) ==
    LET NameMatches(r) == Like(r.name, <<"%">> \o search \o <<"%">>)
    IN  OrderByCreatedAtDesc(SelectSeq(JoinOwner(ScanSprites, {"username"}), NameMatches))

\* the query of sprite_detail(); fetchone() gives the first row or none
sprite_detail_query(sprite_id) ==
    LET HasId(r) == r.id = sprite_id
        found == SelectSeq(JoinOwner(ScanSprites, {"username", "avatar"}), HasId)
    IN  FetchOne(found)

(***************************************************************************)
(* /  (search)                                                             *)
(***************************************************************************)
home(c, search) ==
    /\ req' = [route |-> "home", client |-> c, search |-> search]
    /\ resp' = [kind |-> "render", target |-> "index.html", flash |-> "none", db |-> TRUE,
                sprites |-> home_query(search)]
    /\ ctx' = close_db(execute(get_db(NewContext), "SELECT FROM sprites JOIN users"), "none")
    /\ lastSearch' = [valid |-> TRUE, search |-> search, sprites |-> home_query(search)]
    /\ UNCHANGED <<users, sprites, sqlite_sequence, session, uploads, now, tieOrder, assigned,
                   workers>>

about(c) ==
    /\ req' = [route |-> "about", client |-> c]
    /\ resp' = Render("about.html", "none", FALSE)
    /\ ctx' = close_db(NewContext, "none")
    /\ UNCHANGED <<users, sprites, sqlite_sequence, session, uploads, now, tieOrder, lastSearch,
                   assigned, workers>>

(***************************************************************************)
(* /add_item                                                               *)
(***************************************************************************)
\* a mutation of SpriteValues: price and session['user_id'] change places in
\* the tuple of parameters
SpriteValues_swapped(name, price, short_desc, long_desc, filename, user_id) ==
    [name |-> name, price |-> user_id, short_description |-> short_desc,
     long_description |-> long_desc, image_path |-> filename, seller_id |-> price]

\* the parameters of the INSERT of add_item, by the column each is bound to
SpriteValues(name, price, short_desc, long_desc, filename, user_id) ==
    [name |-> name, price |-> price, short_description |-> short_desc,
     long_description |-> long_desc, image_path |-> filename, seller_id |-> user_id]

\* the row the INSERT stores: the values, the rowid and CURRENT_TIMESTAMP
InsertedRow(id, values, t) ==
    [k \in (DOMAIN values) \cup {"id", "created_at"} |->
        IF k = "id" THEN id ELSE IF k = "created_at" THEN t ELSE values[k]]

add_item(c, method, form, fault) ==
    /\ req' = IF method = "POST"
              THEN [route |-> "add_item", client |-> c, method |-> method, form |-> form]
              ELSE [route |-> "add_item", client |-> c, method |-> method]
    /\ UNCHANGED <<users, session, now, tieOrder, workers>>
    /\ IF ~LoggedIn(c)
       THEN /\ resp' = Redirect("login", "none", FALSE)
            /\ ctx' = close_db(NewContext, "none")
            /\ UNCHANGED <<sprites, sqlite_sequence, uploads, lastSearch, assigned>>
       ELSE IF method = "POST"
            THEN LET price == ParseInt(form.price)
                     file == form.image
                     accepted == file.filename # <<>> /\ allowed_file(file.filename)
                     filename == IF accepted THEN secure_filename(file.filename)
                                 ELSE DefaultSprite
                     id == NextRowId(sprites, sqlite_sequence.sprites)
                     db == get_db(NewContext)
                 IN  IF ~price.ok \/ ~file.present \/ (accepted /\ fault = "save")
                     THEN \* ValueError from int(), KeyError from request.files,
                          \* OSError from file.save
                          /\ resp' = Render("add_item.html", "error", FALSE)
                          /\ ctx' = close_db(NewContext, "none")
                          /\ UNCHANGED <<sprites, sqlite_sequence, uploads, lastSearch,
                                         assigned>>
                     ELSE /\ uploads' = IF accepted
                                        THEN [f \in (DOMAIN uploads) \cup {filename} |->
                                                 IF f = filename THEN file.content ELSE uploads[f]]
                                        ELSE uploads
                          /\ IF ~price.int64 \/ fault = "insert"
                             THEN \* OverflowError or sqlite3.Error from db.execute
                                  /\ resp' = Render("add_item.html", "error", TRUE)
                                  /\ ctx' = close_db(execute(db, "INSERT INTO sprites"), "none")
                                  /\ UNCHANGED <<sprites, sqlite_sequence, lastSearch, assigned>>
                             ELSE IF fault = "commit"
                                  THEN \* sqlite3.Error from db.commit; closing the handle
                                       \* drops the row that was not committed
                                       /\ resp' = Render("add_item.html", "error", TRUE)
                                       /\ ctx' = close_db(execute(execute(db,
                                                      "INSERT INTO sprites"), "COMMIT"), "none")
                                       /\ UNCHANGED <<sprites, sqlite_sequence, lastSearch,
                                                      assigned>>
                                  ELSE /\ sprites' =
                                            Append(sprites,
                                                   InsertedRow(id,
                                                       SpriteValues(form.name, price.value,
                                                           form.short_description,
                                                           form.long_description, filename,
                                                           session[c]["user_id"]),
                                                       now))
                                       /\ sqlite_sequence' =
                                            [sqlite_sequence EXCEPT
                                                !.sprites = IF id > @ THEN id ELSE @]
                                       /\ assigned' = Append(assigned, id)
                                       /\ lastSearch' = NoSearch
                                       /\ resp' = Redirect("profile", "added", TRUE)
                                       /\ ctx' = close_db(execute(execute(db,
                                                      "INSERT INTO sprites"), "COMMIT"), "none")
            ELSE /\ resp' = Render("add_item.html", "none", FALSE)
                 /\ ctx' = close_db(NewContext, "none")
                 /\ UNCHANGED <<sprites, sqlite_sequence, uploads, lastSearch, assigned>>

(***************************************************************************)
(* /sprite/<id>, /delete/<id>, /profile                                    *)
(***************************************************************************)
\* the text of a small number, as it stands in a URL
Decimal(n) == <<Digits[n + 1]>>

\* <int:sprite_id> hands the handler int(segment); a segment is digits only
sprite_detail(c, segment) ==
    LET sprite_id == ParseInt(segment)
    IN  /\ req' = [route |-> "sprite_detail", client |-> c, segment |-> segment]
        /\ IF sprite_id.int64
           THEN /\ resp' = [kind |-> "render", target |-> "sprite_detail.html",
                            flash |-> "none", db |-> TRUE,
                            sprite |-> sprite_detail_query(sprite_id.value)]
                /\ ctx' = close_db(execute(get_db(NewContext), "SELECT FROM sprites JOIN users"),
                                   "none")
           ELSE \* OverflowError from db.execute, which the handler does not catch
                /\ resp' = ServerError(TRUE)
                /\ ctx' = close_db(execute(get_db(NewContext), "SELECT FROM sprites JOIN users"),
                                   "OverflowError")
        /\ UNCHANGED <<users, sprites, sqlite_sequence, session, uploads, now, tieOrder,
                       lastSearch, assigned, workers>>

\* a mutation of DeleteWhere: the owner is not compared
DeleteWhere_anyOwner(s, sprite_id, user_id) == s.id = sprite_id

\* a mutation of DeleteWhere: the id is not compared
DeleteWhere_ownerOnly(s, sprite_id, user_id) == s.seller_id = user_id

\* WHERE id = ? AND seller_id = ?
DeleteWhere(s, sprite_id, user_id) == s.id = sprite_id /\ s.seller_id = user_id

delete(c, sprite_id) ==
    /\ req' = [route |-> "delete", client |-> c, sprite_id |-> sprite_id]
    /\ UNCHANGED <<users, sqlite_sequence, session, uploads, now, tieOrder, assigned, workers>>
    /\ IF ~LoggedIn(c)
       THEN /\ resp' = Redirect("login", "none", FALSE)
            /\ ctx' = close_db(NewContext, "none")
            /\ UNCHANGED <<sprites, lastSearch>>
       ELSE LET Kept(s) == ~DeleteWhere(s, sprite_id, session[c]["user_id"])
            IN  /\ sprites' = SelectSeq(sprites, Kept)
                /\ lastSearch' = IF sprites' = sprites THEN lastSearch ELSE NoSearch
                /\ resp' = Redirect("profile", "deleted", TRUE)
                /\ ctx' = close_db(execute(execute(get_db(NewContext), "DELETE FROM sprites"),
                                           "COMMIT"), "none")

\* a mutation of profile: session.get('user_id') in place of the gate
profile_ungated(c) ==
    /\ req' = [route |-> "profile", client |-> c]
    /\ UNCHANGED <<users, sprites, sqlite_sequence, session, uploads, now, tieOrder, lastSearch,
                   assigned, workers>>
    /\ ctx' = close_db(execute(execute(get_db(NewContext), "SELECT FROM users"),
                               "SELECT FROM sprites"), "none")
    /\ LET Mine(s) == LoggedIn(c) /\ s.seller_id = session[c]["user_id"]
       IN  resp' = [kind |-> "render", target |-> "profile.html", flash |-> "none",
                    db |-> TRUE,
                    user |-> IF LoggedIn(c) THEN FetchOne(UserById(session[c]["user_id"]))
                             ELSE <<>>,
                    sprites |-> SelectSeq(ScanSprites, Mine)]

profile(c) ==
    /\ req' = [route |-> "profile", client |-> c]
    /\ UNCHANGED <<users, sprites, sqlite_sequence, session, uploads, now, tieOrder, lastSearch,
                   assigned, workers>>
    /\ IF ~LoggedIn(c)
       THEN /\ resp' = Redirect("login", "none", FALSE)
            /\ ctx' = close_db(NewContext, "none")
       ELSE LET Mine(s) == s.seller_id = session[c]["user_id"]
            IN  /\ resp' = [kind |-> "render", target |-> "profile.html", flash |-> "none",
                            db |-> TRUE,
                            user |-> FetchOne(UserById(session[c]["user_id"])),
                            sprites |-> SelectSeq(ScanSprites, Mine)]
                /\ ctx' = close_db(execute(execute(get_db(NewContext), "SELECT FROM users"),
                                           "SELECT FROM sprites"), "none")

(***************************************************************************)
(* The requests a browser may send.                                        *)
(***************************************************************************)
ImageParts ==
    {NoImagePart} \cup
    [present : {TRUE}, filename : ImageFilenames, content : {"bytes1"}] \cup
    [present : {TRUE}, filename : {<<"a", ".", "P", "N", "G">>}, content : FileContents]

\* one step of the system: the clock advances or one request is handled, its
\* inputs drawn from the sets of I; a request that would grow a table beyond
\* the bound of I is left out
Step(I) ==
    \/ Tick
    \/ \E c \in I.clients, m \in I.methods, u \in I.usernames, p \in I.passwords, s \in I.salts :
          register(c, m, u, p, s) /\ sqlite_sequence'.users <= I.maxUsers
    \/ \E c \in I.clients, m \in I.methods, u \in I.usernames, p \in I.attempts :
          login(c, m, u, p)
    \/ \E c \in I.clients : logout(c)
    \/ \E c \in I.clients, t \in I.searches : home(c, t)
    \/ \E c \in I.clients : about(c)
    \/ \E c \in I.clients, m \in I.methods, f \in I.forms, x \in I.faults :
          add_item(c, m, f, x) /\ sqlite_sequence'.sprites <= I.maxSprites
    \/ \E c \in I.clients, g \in {Decimal(id) : id \in 1..(I.maxSprites + 1)} \cup I.segments :
          sprite_detail(c, g)
    \/ \E c \in I.clients, id \in 1..(I.maxSprites + 1) : delete(c, id)
    \/ \E c \in I.clients : profile(c)

NoUpload == [present |-> TRUE, filename |-> <<>>, content |-> "bytes1"]

PlainForms ==
    [name : {<<"H", "e">>}, price : {<<"5", "0">>}, short_description : ShortDescriptions,
     long_description : LongDescriptions, image : {NoUpload}]

\* every image part with one price, and every price without an upload
UploadForms ==
    [name : {<<"H", "e">>}, price : {<<"5", "0">>}, short_description : ShortDescriptions,
     long_description : LongDescriptions, image : ImageParts] \cup
    [name : {<<"H", "e">>}, price : PriceInputs, short_description : ShortDescriptions,
     long_description : LongDescriptions, image : {NoUpload}]

\* a form without an upload, and forms with an accepted upload whose price
\* is an integer, is no integer, or does not fit an SQLite INTEGER
FaultForms ==
    [name : {<<"H", "e">>}, price : {<<"5", "0">>}, short_description : ShortDescriptions,
     long_description : LongDescriptions, image : {NoUpload}] \cup
    [name : {<<"H", "e">>}, price : {<<"5", "0">>, <<"x">>, TooLarge},
     short_description : ShortDescriptions, long_description : LongDescriptions,
     image : [present : {TRUE}, filename : {<<"a", ".", "P", "N", "G">>},
              content : FileContents]]

\* accounts, sessions and ownership
AccountInputs ==
    [clients |-> Clients, methods |-> Methods, usernames |-> Usernames,
     passwords |-> Passwords, attempts |-> Attempts,
     salts |-> Salts, searches |-> {<<>>}, forms |-> PlainForms,
     faults |-> {"none"}, segments |-> {},
     maxUsers |-> MaxUsers, maxSprites |-> MaxListed]

\* listing creation and uploads: one account, every image part
UploadInputs ==
    [clients |-> Clients, methods |-> Methods, usernames |-> {"alice"},
     passwords |-> {"secret1"}, attempts |-> {"secret1"},
     salts |-> Salts, searches |-> {<<>>},
     forms |-> UploadForms,
     faults |-> {"none"}, segments |-> {},
     maxUsers |-> MaxUsers, maxSprites |-> MaxListed]

\* listings created and deleted: one account, every name, two searches
ListingInputs ==
    [clients |-> Clients, methods |-> {"POST"}, usernames |-> {"alice"},
     passwords |-> {"secret1"}, attempts |-> {"secret1"},
     salts |-> Salts, searches |-> {<<>>, <<"h">>},
     forms |-> [name : Names, price : {<<"5", "0">>}, short_description : ShortDescriptions,
                long_description : LongDescriptions, image : {NoUpload}],
     faults |-> {"none"}, segments |-> {},
     maxUsers |-> MaxUsers, maxSprites |-> MaxSprites]

\* failures: one account, the storage faults, an id that does not fit
FaultInputs ==
    [clients |-> Clients, methods |-> {"POST"}, usernames |-> {"alice"},
     passwords |-> {"secret1"}, attempts |-> {"secret1"},
     salts |-> Salts, searches |-> {<<>>},
     forms |-> FaultForms,
     faults |-> StorageFaults, segments |-> {TooLarge},
     maxUsers |-> MaxUsers, maxSprites |-> MaxListed]

\* search: one account, every name and every term
SearchInputs ==
    [clients |-> Clients, methods |-> {"POST"}, usernames |-> {"alice"},
     passwords |-> {"secret1"}, attempts |-> {"secret1"},
     salts |-> Salts, searches |-> SearchTerms,
     forms |-> [name : Names, price : {<<"5", "0">>}, short_description : ShortDescriptions,
                long_description : LongDescriptions, image : {NoUpload}],
     faults |-> {"none"}, segments |-> {},
     maxUsers |-> MaxUsers, maxSprites |-> MaxSprites]

Next == Step(AccountInputs)
NextUpload == Step(UploadInputs)
NextSearch == Step(SearchInputs)
NextFault == Step(FaultInputs)
NextListing == Step(ListingInputs)

Spec == Init /\ [][Next]_vars
SpecUpload == Init /\ [][NextUpload]_vars
SpecSearch == Init /\ [][NextSearch]_vars
SpecFault == Init /\ [][NextFault]_vars
SpecListing == Init /\ [][NextListing]_vars

\* register requests handled by several workers at once
NextConcurrent ==
    \/ \E w \in Workers, u \in Usernames, p \in Passwords, s \in Salts : RegisterBegin(w, u, p, s)
    \/ \E w \in Workers : RegisterValidate(w)
    \/ \E w \in Workers : RegisterInsert(w)
    \/ \E w \in Workers : RegisterLocked(w)
    \/ \E w \in Workers : RegisterCommit(w)
    \/ \E w \in Workers : RegisterDuplicate(w)

SpecConcurrent == Init /\ [][NextConcurrent]_vars

(***************************************************************************)
(* Properties.                                                             *)
(***************************************************************************)
SpriteById(id) ==
    LET HasId(s) == s.id = id
    IN  SelectSeq(sprites, HasId)

AccountIds == 1..(AccountInputs.maxSprites + 1)

C1_ForeignDeleteStep ==
    \A c \in Clients, id \in AccountIds :
        (/\ delete(c, id)
         /\ LoggedIn(c)
         /\ SpriteById(id) # <<>>
         /\ SpriteById(id)[1].seller_id # session[c]["user_id"])
        => /\ sprites' = sprites
           /\ Len(sprites') >= Len(sprites)
           /\ sprite_detail_query(id)' # <<>>
           /\ sprite_detail_query(id)' = sprite_detail_query(id)

\* C1 (ownership): a delete request for a stored listing, sent by a logged-in
\* principal who is not its seller, leaves the stored listings unchanged, and
\* the listing is still returned by detail afterwards.
C1_Ownership == [][C1_ForeignDeleteStep]_vars

\* a principal other than the seller has just asked to delete a listing, and
\* the listing is stored
C1_Witness ==
    /\ req.route = "delete"
    /\ resp.flash = "deleted"
    /\ LoggedIn(req.client)
    /\ SpriteById(req.sprite_id) # <<>>
    /\ SpriteById(req.sprite_id)[1].seller_id # session[req.client]["user_id"]
    /\ sprite_detail_query(req.sprite_id) # <<>>

UploadIds == 1..(UploadInputs.maxSprites + 1)

\* the step is a request to a protected operation sent by browser c
ProtectedRequest(c) ==
    \/ \E m \in Methods, f \in UploadInputs.forms : add_item(c, m, f, "none")
    \/ \E id \in UploadIds : delete(c, id)
    \/ profile(c)

C2_GateStep ==
    \A c \in UploadInputs.clients :
        (ProtectedRequest(c) /\ ~LoggedIn(c))
        => /\ sprites' = sprites
           /\ users' = users
           /\ sqlite_sequence' = sqlite_sequence
           /\ uploads' = uploads
           /\ resp' = [kind |-> "redirect", target |-> "login", flash |-> "none", db |-> FALSE]

\* C2 (authorization gate): a protected operation requested without a user_id
\* in the session changes no table, writes no file, opens no database handle,
\* and answers with a redirect to the login page.
C2_AuthorizationGate == [][C2_GateStep]_vars

\* an anonymous browser has just posted a listing with an acceptable image
C2_Witness ==
    /\ req.route = "add_item"
    /\ req.method = "POST"
    /\ ~LoggedIn(req.client)
    /\ req.form.image.present
    /\ req.form.image.filename = <<"a", ".", "P", "N", "G">>
    /\ resp.kind = "redirect"
    /\ resp.target = "login"

UniqueUsernames ==
    \A i, j \in 1..Len(users) : users[i].username = users[j].username => i = j

C3_DuplicateStep ==
    \A c \in Clients, u \in Usernames, p \in Passwords, s \in Salts :
        (/\ register(c, "POST", u, p, s)
         /\ Len(p) >= 6
         /\ \E i \in 1..Len(users) : users[i].username = u)
        => /\ users' = users
           /\ Len(users') = Len(users)
           /\ resp'.flash = "duplicate_username"

\* C3 (username uniqueness): no two stored users share a username, and a
\* register request with an acceptable password for a stored username adds
\* no account, takes the duplicate-username branch and leaves the stored
\* accounts as they were.
C3_UsernameUniqueness == []UniqueUsernames /\ [][C3_DuplicateStep]_vars

\* a register request for a stored username has just been refused
C3_Witness ==
    /\ req.route = "register"
    /\ req.method = "POST"
    /\ Len(req.password) >= 6
    /\ resp.flash = "duplicate_username"
    /\ Len(users) = 1
    /\ users[1].username = req.username

\* the password hashes, with the stored salt, to the stored hash
Verifies(user, password) == generate_password_hash(password, user.password.salt) = user.password

\* a present user_id names a stored user
SessionNamesUser ==
    \A c \in Clients : LoggedIn(c) => \E i \in 1..Len(users) : users[i].id = session[c]["user_id"]

C4_SessionStep ==
    \A c \in Clients :
        /\ (session'[c] # session[c] /\ "user_id" \in DOMAIN session'[c])
           => \E u \in Usernames, p \in Attempts, i \in 1..Len(users) :
                 /\ login(c, "POST", u, p)
                 /\ users[i].username = u
                 /\ Verifies(users[i], p)
                 /\ session'[c]["user_id"] = users[i].id
        /\ \A u \in Usernames, p \in Attempts :
              (/\ login(c, "POST", u, p)
               /\ ~\E i \in 1..Len(users) : users[i].username = u /\ Verifies(users[i], p))
              => session' = session
        /\ logout(c) => "user_id" \notin DOMAIN session'[c]

\* C4 (session identity): user_id enters a session only through a login whose
\* username is stored and whose password verifies, and is then that user's
\* id; a failed login leaves every session as it was; logout removes it; so
\* a present user_id always names a stored user.
C4_SessionIdentity == []SessionNamesUser /\ [][C4_SessionStep]_vars

\* the second of two stored users has just logged in, and the session holds
\* that user's id
C4_Witness ==
    /\ req.route = "login"
    /\ req.method = "POST"
    /\ resp.kind = "redirect"
    /\ Len(users) = 2
    /\ users[2].username = req.username
    /\ Verifies(users[2], req.password)
    /\ LoggedIn(req.client)
    /\ session[req.client]["user_id"] = users[2].id

\* the text after the last '.' of the filename, in lower case, is not one of
\* the image extensions, or there is no '.'
RejectedFilename(filename) ==
    \/ \A i \in 1..Len(filename) : filename[i] # "."
    \/ Lower(SubSeq(filename, LastIndexOf(".", filename) + 1, Len(filename)))
          \notin {<<"p", "n", "g">>, <<"j", "p", "g">>, <<"j", "p", "e", "g">>,
                  <<"w", "e", "b", "p">>, <<"g", "i", "f">>}

C5_RejectedUploadStep ==
    \A c \in UploadInputs.clients, f \in UploadInputs.forms :
        (add_item(c, "POST", f, "none") /\ f.image.present /\ RejectedFilename(f.image.filename))
        => /\ uploads' = uploads
           /\ Len(sprites') > Len(sprites)
              => sprites'[Len(sprites')].image_path = DefaultSprite

\* C5 (upload rejection): posting add_item with a file whose name has no '.'
\* or whose extension, compared without case, is not an image extension
\* writes nothing to the upload directory, and the listing created has
\* image_path 'default-sprite.png'.
C5_UploadRejection == [][C5_RejectedUploadStep]_vars

\* a listing has just been created from a form that carried a file named
\* with a refused extension
C5_Witness ==
    /\ req.route = "add_item"
    /\ req.method = "POST"
    /\ req.form.image.present
    /\ req.form.image.filename = <<"a", ".", "p", "n", "g", ".", "e", "x", "e">>
    /\ resp.flash = "added"
    /\ SpriteById(sqlite_sequence.sprites) # <<>>
    /\ SpriteById(sqlite_sequence.sprites)[1].image_path = DefaultSprite
    /\ DOMAIN uploads = {}

\* the integers written by the price texts of the forms
PriceValue(text) ==
    CASE text = <<"5", "0">> -> 50
      [] text = <<" ", "-", "7">> -> 0 - 7

\* the last request created a listing from a form without an image upload
CreatedWithoutUpload ==
    /\ req.route = "add_item"
    /\ req.method = "POST"
    /\ resp.flash = "added"
    /\ req.form.image.present
    /\ req.form.image.filename = <<>>

\* C6 (round trip): a listing created by a logged-in user without an image
\* upload is returned by detail with the name, price and descriptions of the
\* form, image_path 'default-sprite.png', the creator's id as seller_id, and
\* the owner's username and avatar.
C6_RoundTrip ==
    CreatedWithoutUpload =>
        LET found == sprite_detail_query(sqlite_sequence.sprites)
            owner == UserById(session[req.client]["user_id"])
        IN  /\ Len(found) = 1
            /\ Len(owner) = 1
            /\ found[1].id = sqlite_sequence.sprites
            /\ found[1].name = req.form.name
            /\ found[1].price = PriceValue(req.form.price)
            /\ found[1].short_description = req.form.short_description
            /\ found[1].long_description = req.form.long_description
            /\ found[1].image_path = DefaultSprite
            /\ found[1].seller_id = session[req.client]["user_id"]
            /\ found[1].username = owner[1].username
            /\ found[1].avatar = owner[1].avatar

\* a listing with a negative price has just been created without an upload
C6_Witness ==
    /\ CreatedWithoutUpload
    /\ req.form.price = <<" ", "-", "7">>
    /\ sprite_detail_query(sqlite_sequence.sprites) # <<>>
    /\ sprite_detail_query(sqlite_sequence.sprites)[1].price < 0
    /\ sprite_detail_query(sqlite_sequence.sprites)[1].username = "alice"

\* the stored listings were created at pairwise distinct times
DistinctTimes ==
    \A i, j \in 1..Len(sprites) : sprites[i].created_at = sprites[j].created_at => i = j

\* the columns of sprites in a row of a search result
ListingOf(row) == [k \in (DOMAIN row) \ {"username"} |-> row[k]]

\* C7 (search ordering): when the stored listings were created at distinct
\* times, search("") returns every stored listing exactly once, most recently
\* created first.
C7_SearchOrdering ==
    (req.route = "home" /\ req.search = <<>> /\ DistinctTimes) =>
        LET r == resp.sprites
        IN  /\ Len(r) = Len(sprites)
            /\ \A i \in 1..Len(sprites) : \E j \in 1..Len(r) : ListingOf(r[j]) = sprites[i]
            /\ \A j, k \in 1..Len(r) : j < k => r[j].created_at >= r[k].created_at

\* search("") has just returned two listings created at different times,
\* after an earlier listing was deleted
C7_Witness ==
    /\ req.route = "home"
    /\ req.search = <<>>
    /\ DistinctTimes
    /\ Len(sprites) = 2
    /\ Len(resp.sprites) = 2
    /\ resp.sprites[1].created_at > resp.sprites[2].created_at
    /\ resp.sprites[1].id > resp.sprites[2].id

LiteralMatches(term) ==
    {sprites[i].id : i \in {n \in 1..Len(sprites) :
                               Contains(Lower(sprites[n].name), Lower(term))}}

\* C9 (search matching): search returns all stored listings for the empty
\* term, and otherwise exactly the listings whose name contains the term as a
\* literal substring without regard to case.
C9_LiteralMatching ==
    req.route = "home" =>
        {resp.sprites[j].id : j \in 1..Len(resp.sprites)} =
            IF req.search = <<>> THEN SpriteRowIds ELSE LiteralMatches(req.search)

C10_SearchStep ==
    \A c \in SearchInputs.clients, t \in SearchTerms :
        (lastSearch.valid /\ lastSearch.search = t /\ home(c, t))
        => resp'.sprites = lastSearch.sprites

\* C10 (idempotent search): a search for a term answers with the listings,
\* in the order, of the previous search for that term when no row of users
\* or sprites was written between the two.
C10_IdempotentSearch == [][C10_SearchStep]_vars

\* a search has returned two listings after the clock advanced past their
\* creation
C10_Witness ==
    /\ req.route = "home"
    /\ Len(resp.sprites) = 2
    /\ \A j \in 1..2 : resp.sprites[j].created_at < now
    /\ lastSearch.valid
    /\ lastSearch.sprites = resp.sprites

C11_ShortPasswordStep ==
    \A c \in Clients, u \in Usernames, p \in Passwords, s \in Salts :
        (register(c, "POST", u, p, s) /\ Len(p) < 6)
        => /\ users' = users
           /\ sqlite_sequence' = sqlite_sequence
           /\ ctx'.statements = <<>>
           /\ resp'.kind = "redirect"
           /\ resp'.target = "register"
           /\ resp'.flash = "short_password"

\* C11 (short-password rejection): a register request whose password has
\* fewer than 6 characters executes no statement, leaves the users table as
\* it was and answers with the validation message, whether or not the
\* username is stored.
C11_ShortPassword == [][C11_ShortPasswordStep]_vars

\* a register request with a five-character password for a stored username
\* has just been refused for its password
C11_Witness ==
    /\ req.route = "register"
    /\ req.method = "POST"
    /\ req.password = "short"
    /\ UserByName(req.username) # <<>>
    /\ resp.flash = "short_password"
    /\ ctx.statements = <<>>

\* every stored listing's seller_id is the id of a stored user
SellersStored ==
    \A i \in 1..Len(sprites) : \E j \in 1..Len(users) : users[j].id = sprites[i].seller_id

C12_CreateStep ==
    \A c \in Clients, f \in AccountInputs.forms :
        (add_item(c, "POST", f, "none") /\ Len(sprites') > Len(sprites))
        => /\ "user_id" \in DOMAIN session[c]
           /\ sprites'[Len(sprites')].seller_id = session[c]["user_id"]
           /\ \E j \in 1..Len(users) : users[j].id = session[c]["user_id"]

\* C12 (referential integrity): in every reachable state each stored
\* listing's seller_id is the id of a stored user, and a listing created by
\* add_item gets as seller_id the session's user_id, which names a stored
\* user when the listing is created.
C12_ReferentialIntegrity == []SellersStored /\ [][C12_CreateStep]_vars

\* the second of two stored users has just created a listing, which carries
\* that user's id
C12_Witness ==
    /\ req.route = "add_item"
    /\ resp.flash = "added"
    /\ Len(users) = 2
    /\ Len(sprites) = 1
    /\ sprites[1].seller_id = users[2].id
    /\ session[req.client]["user_id"] = users[2].id

\* the form carries a file that add_item accepts
UploadAccepted(f) ==
    /\ f.image.present
    /\ f.image.filename # <<>>
    /\ ~RejectedFilename(f.image.filename)

C13_CreateStep ==
    \A c \in FaultInputs.clients, f \in FaultInputs.forms, x \in StorageFaults :
        (add_item(c, "POST", f, x) /\ LoggedIn(c))
        => \/ /\ Len(sprites') = Len(sprites) + 1
              /\ UploadAccepted(f) =>
                    LET path == sprites'[Len(sprites')].image_path
                    IN  path \in DOMAIN uploads' /\ uploads'[path] = f.image.content
           \/ /\ sprites' = sprites
              /\ uploads' = uploads

\* C13 (create is all-or-nothing): an add_item POST either stores the listing
\* row together with its accepted image file, or, when a step fails, adds no
\* row and leaves the upload directory as it was.
C13_AllOrNothing == [][C13_CreateStep]_vars

\* the last context is that of a request and has ended
RequestEnded == req.route # "none"

\* C14 (scoped storage handle): in the context of a request at most one
\* handle is opened, it is opened exactly when the handler calls get_db, a
\* further get_db call in that context returns the same handle and opens
\* none, and once the context has ended, by return, redirect or exception,
\* no handle of it is open.
C14_ScopedHandle ==
    RequestEnded =>
        /\ ctx.connects <= 1
        /\ ctx.connects = 1 <=> resp.db
        /\ ctx.connects = 1 <=> "db" \in DOMAIN ctx.g
        /\ ctx.statements # <<>> => ctx.connects = 1
        /\ "db" \in DOMAIN ctx.g => get_db(ctx) = ctx
        /\ "db" \notin DOMAIN ctx.g => get_db(get_db(ctx)).connects = 1
        /\ resp.kind \in {"render", "redirect", "error"}
        /\ ctx.open = {}

\* a request whose handler raised after get_db has ended, and its handle is
\* closed
C14_Witness ==
    /\ req.route = "sprite_detail"
    /\ resp.kind = "error"
    /\ ctx.connects = 1
    /\ ctx.g["db"] = 1
    /\ ctx.open = {}

\* every stored account has the balance the schema gives a new row
BalancesUntouched == \A i \in 1..Len(users) : users[i].balance = 100

\* the profile page shows the stored account of the session, balance 100
ProfileShowsAccount ==
    (req.route = "profile" /\ resp.kind = "render")
    => /\ Len(resp.user) = 1
       /\ \E i \in 1..Len(users) : users[i] = resp.user[1]
       /\ resp.user[1].balance = 100

\* each stored account is stored after the step, in its place, with the
\* same id, username, password hash, balance, avatar and created_at
C15_AccountStep ==
    /\ Len(users') >= Len(users)
    /\ \A i \in 1..Len(users) :
          /\ users'[i].id = users[i].id
          /\ users'[i].username = users[i].username
          /\ users'[i].password = users[i].password
          /\ users'[i].balance = users[i].balance
          /\ users'[i].avatar = users[i].avatar
          /\ users'[i].created_at = users[i].created_at

\* C15 (accounts are permanent and immutable): no request removes a stored
\* user or changes one of its fields, and its balance stays 100, the value
\* profile shows.
C15_AccountsPermanent ==
    [](BalancesUntouched /\ ProfileShowsAccount) /\ [][C15_AccountStep]_vars

\* the first of two stored users, whose only listing has been deleted, is
\* shown its profile with balance 100 in a later second than it registered
C15_Witness ==
    /\ req.route = "profile"
    /\ resp.kind = "render"
    /\ Len(users) = 2
    /\ resp.user = <<users[1]>>
    /\ resp.user[1].balance = 100
    /\ resp.user[1].created_at < now
    /\ sqlite_sequence.sprites = 1
    /\ sprites = <<>>

\* the requests of two workers are finished and asked for one username,
\* free when each began, with passwords of six characters or more
RacedFor(w1, w2) ==
    /\ w1 # w2
    /\ workers[w1].pc = "done"
    /\ workers[w2].pc = "done"
    /\ workers[w1].username = workers[w2].username
    /\ workers[w1].free
    /\ workers[w2].free
    /\ Len(workers[w1].password) >= 6
    /\ Len(workers[w2].password) >= 6

\* C16 (concurrent registration): of two register requests for one free
\* username handled by different workers, exactly one commits a new account
\* and the other takes the duplicate-username branch; exactly one account
\* with that username is stored.
C16_ConcurrentRegistration ==
    \A w1, w2 \in Workers :
        RacedFor(w1, w2)
        => /\ {workers[w1].outcome, workers[w2].outcome} = {"registered", "duplicate_username"}
           /\ Len(UserByName(workers[w1].username)) = 1

ListingIds == 1..(ListingInputs.maxSprites + 1)

C17_OwnerDeleteStep ==
    \A c \in ListingInputs.clients, id \in ListingIds :
        (/\ delete(c, id)
         /\ LoggedIn(c)
         /\ SpriteById(id) # <<>>
         /\ SpriteById(id)[1].seller_id = session[c]["user_id"])
        => LET Other(s) == s.id # id
           IN  /\ sprites' = SelectSeq(sprites, Other)
               /\ Len(sprites') = Len(sprites) - 1
               /\ users' = users
               /\ sprite_detail_query(id)' = <<>>
               /\ id \notin SpriteRowIds'

\* a listing stored before and after the step has the same fields
C17_FieldsStep ==
    \A i \in 1..Len(sprites), j \in 1..Len(sprites') :
        sprites'[j].id = sprites[i].id => sprites'[j] = sprites[i]

\* a search returns stored listings only
SearchReturnsStored ==
    req.route = "home" => \A j \in 1..Len(resp.sprites) : resp.sprites[j].id \in SpriteRowIds

\* after a delete request of a logged-in client no search returns a listing
\* of that id owned by the client
DeletedNotFound ==
    (req.route = "delete" /\ LoggedIn(req.client))
    => \A t \in ListingInputs.searches : \A j \in 1..Len(home_query(t)) :
           ~(/\ home_query(t)[j].id = req.sprite_id
             /\ home_query(t)[j].seller_id = session[req.client]["user_id"])

\* C17 (delete frame): a delete request for a stored listing sent by its
\* owner removes that listing and no other, so that detail and search no
\* longer return it, and leaves the other listings and the users as they
\* were; the fields of a listing do not change while it is stored.
C17_DeleteFrame ==
    /\ []SearchReturnsStored
    /\ []DeletedNotFound
    /\ [][C17_OwnerDeleteStep /\ C17_FieldsStep]_vars

\* the owner of two listings has just deleted the first; the second is
\* stored
C17_Witness ==
    /\ req.route = "delete"
    /\ resp.flash = "deleted"
    /\ req.sprite_id = 1
    /\ SpriteById(1) = <<>>
    /\ Len(sprites) = 1
    /\ sprites[1].id = 2
    /\ sprites[1].seller_id = session[req.client]["user_id"]

\* assigned lists the ids given to listings, in the order they were given:
\* each is greater than all before it
StrictlyIncreasing == \A i, j \in 1..Len(assigned) : i < j => assigned[i] < assigned[j]

\* the listings that have carried the id
TimesAssigned(id) == Cardinality({k \in 1..Len(assigned) : assigned[k] = id})

C18_CreateStep ==
    Len(sprites') > Len(sprites)
    => LET id == sprites'[Len(sprites')].id
       IN  /\ \A k \in 1..Len(assigned) : assigned[k] < id
           /\ \A i \in 1..Len(sprites) : sprites[i].id < id
           /\ assigned' = Append(assigned, id)

\* a delete request that removes a listing removes the only listing that
\* has ever carried the id, never one created after a listing of that id
\* was deleted
C18_DeleteStep ==
    \A c \in ListingInputs.clients, id \in ListingIds :
        (delete(c, id) /\ sprites' # sprites) => TimesAssigned(id) = 1

\* C18 (listing ids are never reused): each new listing gets an id greater
\* than every id given before, those of deleted listings included, so a
\* delete request with the id of a deleted listing removes no listing
\* created later.
C18_IdsNeverReused == []StrictlyIncreasing /\ [][C18_CreateStep /\ C18_DeleteStep]_vars

\* the first listing was created and deleted, a second was created, and a
\* delete request with the first id has just left the second stored
C18_Witness ==
    /\ req.route = "delete"
    /\ req.sprite_id = 1
    /\ LoggedIn(req.client)
    /\ assigned = <<1, 2>>
    /\ Len(sprites) = 1
    /\ sprites[1].id = 2

====
